---- MODULE Spec2Model ----
(***************************************************************************)
(* Model of mininet-topo.py: MyAutoTopo.build (topology construction from  *)
(* the loopbacks and links files) and simpleRun (per-host configuration,   *)
(* optional capture, static routes, interactive session, teardown).        *)
(*                                                                         *)
(* A file is the list of its lines (what fd.read().split("\n") returns); a *)
(* line is a sequence of tokens, the token " " being the separator that    *)
(* split(" ") cuts at.  Every call made on the topology, the network, a    *)
(* host or the file system is appended to log, in program order.           *)
(***************************************************************************)
EXTENDS Integers, Sequences, FiniteSets, TLC

VARIABLES
    nodeFile,   \* content of args.loopbacks
    linkFile,   \* content of args.links
    pathFile,   \* content of args.paths
    ipv4,       \* args.ipv4
    traces,     \* args.traces
    pcapDir,    \* file system at PCAP_DIR: "absent", "dir" or "file"
    pc,         \* position in the program; where it stopped once err is set
    txt,        \* local txt: the lines of the file last read
    i,          \* index in txt of the next line of the running for loop
    all_nodes,  \* keys of the dict all_nodes of build
    all_links,  \* the set all_links of build
    log,        \* every external call issued so far, in order
    twin,       \* the calls the same run issues with args.ipv4 negated
    err         \* the exception that ended the run, or "none"

vars == <<nodeFile, linkFile, pathFile, ipv4, traces, pcapDir, pc, txt, i,
          all_nodes, all_links, log, twin, err>>

inputs == <<nodeFile, linkFile, pathFile, ipv4, traces>>

----------------------------------------------------------------------------
(* Bounds of the input space *)

MaxNodeLines == 3
MaxLinkLines == 2
MaxPathLines == 2

----------------------------------------------------------------------------
(* str.split(" "): one field per separator, plus one; fields may be empty *)

RECURSIVE SplitAcc(_, _, _)
SplitAcc(s, cur, acc) ==
    IF s = <<>> THEN Append(acc, cur)
    ELSE IF Head(s) = " " THEN SplitAcc(Tail(s), "", Append(acc, cur))
    ELSE SplitAcc(Tail(s), cur \o Head(s), acc)

Split(line) == SplitAcc(line, "", <<>>)

(* Lines of the three files *)
Blank == <<>>

NodeLine(id, lb) == <<id, " ", lb>>
LinkLine(a, b, itf, link, lb) == <<a, " ", b, " ", itf, " ", link, " ", lb>>
PathLine(id, itf, gw, dst) == <<id, " ", itf, " ", gw, " ", dst>>

NodeLines ==
    { Blank,
      NodeLine("A", "lbA/64"), NodeLine("B", "lbB/64"), NodeLine("C", "lbC/64"),
      <<"A">>, <<" ">> }

LinkLines ==
    { Blank,
      LinkLine("A", "B", "0", "ab1/64", "lbB/64"),
      LinkLine("B", "A", "0", "ab2/64", "lbA/64"),
      LinkLine("A", "C", "1", "ac1/64", "lbC/64"),
      <<"A", " ", "B", " ", "0", " ", "ab1/64">> }

PathLines ==
    { Blank,
      PathLine("A", "0", "ab2", "lbB/64"),
      PathLine("B", "0", "ab1", "lbA/64"),
      <<"A", " ", "0", " ", "ab2">> }

SeqsUpTo(S, n) == UNION { [1..k -> S] : k \in 0..n }

NodeFiles == SeqsUpTo(NodeLines, MaxNodeLines)
LinkFiles == SeqsUpTo(LinkLines, MaxLinkLines)
PathFiles == SeqsUpTo(PathLines, MaxPathLines)

(* Init varies one file over all the files of its bound and takes the    *)
(* other two among the files below                                        *)
SomeNodeFiles ==
    { <<NodeLine("A", "lbA/64"), NodeLine("B", "lbB/64"), Blank>>,
      <<NodeLine("A", "lbA/64"), NodeLine("B", "lbB/64"), NodeLine("C", "lbC/64")>>,
      <<NodeLine("A", "lbA/64")>> }
SomeLinkFiles ==
    { <<LinkLine("A", "B", "0", "ab1/64", "lbB/64"),
        LinkLine("B", "A", "0", "ab2/64", "lbA/64"), Blank>>,
      <<LinkLine("A", "B", "0", "ab1/64", "lbB/64"),
        <<"B", " ", "A", " ", "0", " ", "ab2/64">>>>,
      <<>> }
SomePathFiles ==
    { <<PathLine("A", "0", "ab2", "lbB/64"), PathLine("B", "0", "ab1", "lbA/64"), Blank>> }

----------------------------------------------------------------------------
(* Entries of log *)

Ev(op, host, kind, dev, arg, fam, line) ==
    [op |-> op, host |-> host, kind |-> kind, dev |-> dev, arg |-> arg,
     fam |-> fam, line |-> line]

AddHostEv(id, lb, n) == Ev("addHost", id, "-", "-", lb, "-", n)
AddLinkEv(a, b, n)   == Ev("addLink", a, "-", "-", b, "-", n)
Cmd(host, kind, dev, arg, fam, n) == Ev("cmd", host, kind, dev, arg, fam, n)
Sys(op) == Ev(op, "-", "-", "-", "-", "-", 0)

(* the "ip" / "ip -6" variant chosen by the tests on ipv4 *)
Fam(v4) == IF v4 THEN "v4" ELSE "v6"

(* a call sequence is issued whatever the value of ipv4; twin records the *)
(* sequence the other value of the flag yields                            *)
Issue(calls, other) ==
    /\ log' = log \o calls
    /\ twin' = twin \o other

NoCall == UNCHANGED <<log, twin>>

(* an exception ends the run where it is raised *)
Raise(e) == err' = e

IsBlank_Short(line) == Len(line) <= 1

IsBlank(line) == Len(line) = 0

----------------------------------------------------------------------------
Init ==
    /\ \/ /\ nodeFile \in NodeFiles
          /\ linkFile \in SomeLinkFiles
          /\ pathFile \in SomePathFiles
          /\ ipv4 = FALSE /\ traces = FALSE /\ pcapDir = "absent"
       \/ /\ nodeFile \in SomeNodeFiles
          /\ linkFile \in LinkFiles
          /\ pathFile \in SomePathFiles
          /\ ipv4 \in BOOLEAN /\ traces \in BOOLEAN
          /\ pcapDir \in {"absent", "dir", "file"}
       \/ /\ nodeFile \in SomeNodeFiles
          /\ linkFile \in SomeLinkFiles
          /\ pathFile \in PathFiles
          /\ ipv4 \in BOOLEAN /\ traces \in BOOLEAN
          /\ pcapDir = "absent"
    /\ pc = "build_open_loopbacks"
    /\ txt = <<>>
    /\ i = 1
    /\ all_nodes = {}
    /\ all_links = {}
    /\ log = <<>>
    /\ twin = <<>>
    /\ err = "none"

----------------------------------------------------------------------------
(* with open(path) as fd: txt = fd.read().split("\n").  The open either   *)
(* fails, and the run ends at `at` with FileNotFoundError, or txt holds   *)
(* the lines of the file and the loop over them starts.                   *)
Open(at, file, next) ==
    /\ err = "none"
    /\ \E readable \in BOOLEAN :
          IF readable
          THEN /\ txt' = file
               /\ i' = 1
               /\ pc' = next
               /\ err' = err
          ELSE /\ Raise("FileNotFoundError")
               /\ pc' = at
               /\ UNCHANGED <<txt, i>>

(* the for loop over txt is at a line / has run out of lines *)
AtLine(loop) == err = "none" /\ pc = loop /\ i <= Len(txt)
AtEnd(loop)  == err = "none" /\ pc = loop /\ i > Len(txt)

(* MyAutoTopo.build *)

BuildOpenLoopbacks ==
    /\ pc = "build_open_loopbacks"
    /\ Open("build_open_loopbacks", nodeFile, "build_nodes")
    /\ all_nodes' = {}
    /\ NoCall
    /\ UNCHANGED <<inputs, pcapDir, all_links>>

HostCalls_OncePerId(f, n) ==
    IF f[1] \in all_nodes THEN <<>> ELSE <<AddHostEv(f[1], f[2], n)>>

HostCalls(f, n) == <<AddHostEv(f[1], f[2], n)>>

BuildNodeLine ==
    /\ AtLine("build_nodes")
    /\ LET node_info == txt[i]
           f == Split(node_info)
           calls(v4) == HostCalls(f, i)
       IN  IF IsBlank(node_info)
           THEN /\ i' = i + 1
                /\ NoCall
                /\ UNCHANGED <<err, all_nodes>>
           ELSE IF Len(f) # 2
           THEN /\ Raise("ValueError")
                /\ NoCall
                /\ UNCHANGED <<i, all_nodes>>
           ELSE /\ Issue(calls(ipv4), calls(~ipv4))
                /\ all_nodes' = all_nodes \cup {f[1]}
                /\ i' = i + 1
                /\ UNCHANGED err
    /\ UNCHANGED <<inputs, pcapDir, pc, txt, all_links>>

BuildOpenLinks ==
    /\ AtEnd("build_nodes")
    /\ Open("build_open_links", linkFile, "build_links")
    /\ all_links' = {}
    /\ NoCall
    /\ UNCHANGED <<inputs, pcapDir, all_nodes>>

Seen_SameOrientation(id1, id2) == <<id1, id2>> \in all_links

(* line 35: either orientation of the pair is already in all_links *)
Seen(id1, id2) == <<id1, id2>> \in all_links \/ <<id2, id1>> \in all_links

BuildLinkLine ==
    /\ AtLine("build_links")
    /\ LET link_info == txt[i]
           f == Split(link_info)
           calls(v4) == <<AddLinkEv(f[1], f[2], i)>>
       IN  IF IsBlank(link_info)
           THEN /\ i' = i + 1
                /\ NoCall
                /\ UNCHANGED <<err, all_links>>
           ELSE IF Len(f) # 5
           THEN /\ Raise("ValueError")
                /\ NoCall
                /\ UNCHANGED <<i, all_links>>
           ELSE IF Seen(f[1], f[2])
           THEN /\ i' = i + 1
                /\ NoCall
                /\ UNCHANGED <<err, all_links>>
           ELSE IF f[1] \notin all_nodes \/ f[2] \notin all_nodes
           THEN /\ Raise("KeyError")
                /\ NoCall
                /\ UNCHANGED <<i, all_links>>
           ELSE /\ Issue(calls(ipv4), calls(~ipv4))
                /\ all_links' = all_links \cup {<<f[1], f[2]>>}
                /\ i' = i + 1
                /\ UNCHANGED err
    /\ UNCHANGED <<inputs, pcapDir, pc, txt, all_nodes>>

(* simpleRun *)

NetStart ==
    /\ AtEnd("build_links")
    /\ LET calls(v4) == <<Sys("start")>> IN Issue(calls(ipv4), calls(~ipv4))
    /\ pc' = "run_open_loopbacks"
    /\ UNCHANGED <<inputs, pcapDir, txt, i, all_nodes, all_links, err>>

RunOpenLoopbacks ==
    /\ pc = "run_open_loopbacks"
    /\ Open("run_open_loopbacks", nodeFile, "run_loopbacks")
    /\ NoCall
    /\ UNCHANGED <<inputs, pcapDir, all_nodes, all_links>>

(* net[id1]: the hosts of the network are the hosts of the topology *)
NetHas(id) == id \in all_nodes

LoopbackCmds(id1, loopback, n, v4) ==
    << Cmd(id1, "addr", "lo", loopback, Fam(v4), n),
       Cmd(id1, "fwd", "-", "net.ipv4.ip_forward", "-", n),
       Cmd(id1, "fwd", "all", "net.ipv6.conf.all.forwarding", "-", n),
       Cmd(id1, "fwd", "all", "net.ipv6.conf.all.mc_forwarding", "-", n),
       Cmd(id1, "fwd", "lo", "net.ipv6.conf.lo.forwarding", "-", n),
       Cmd(id1, "fwd", "lo", "net.ipv6.conf.lo.mc_forwarding", "-", n) >>

RunLoopbackLine ==
    /\ AtLine("run_loopbacks")
    /\ LET loopback_info == txt[i]
           f == Split(loopback_info)
           calls(v4) == LoopbackCmds(f[1], f[2], i, v4)
       IN  IF IsBlank(loopback_info)
           THEN /\ i' = i + 1
                /\ NoCall
                /\ UNCHANGED err
           ELSE IF Len(f) # 2
           THEN /\ Raise("ValueError")
                /\ NoCall
                /\ UNCHANGED i
           ELSE IF ~NetHas(f[1])
           THEN /\ Raise("KeyError")
                /\ NoCall
                /\ UNCHANGED i
           ELSE /\ Issue(calls(ipv4), calls(~ipv4))
                /\ i' = i + 1
                /\ UNCHANGED err
    /\ UNCHANGED <<inputs, pcapDir, pc, txt, all_nodes, all_links>>

RunOpenLinks_AfterPaths ==
    /\ AtEnd("run_loopbacks") \/ AtEnd("run_paths")
    /\ Open("run_open_links", linkFile, "run_links")
    /\ NoCall
    /\ UNCHANGED <<inputs, pcapDir, all_nodes, all_links>>

RunOpenLinks ==
    /\ AtEnd("run_loopbacks")
    /\ Open("run_open_links", linkFile, "run_links")
    /\ NoCall
    /\ UNCHANGED <<inputs, pcapDir, all_nodes, all_links>>

Itf(id1, itf) == id1 \o "-eth" \o itf

LinkCmds_AddrFirst(id1, itf, link, n, v4) ==
    << Cmd(id1, "addr", Itf(id1, itf), link, Fam(v4), n),
       Cmd(id1, "fwd", Itf(id1, itf), "net.ipv6.conf.itf.forwarding", "-", n),
       Cmd(id1, "fwd", Itf(id1, itf), "net.ipv6.conf.itf.mc_forwarding", "-", n),
       Cmd(id1, "fwd", Itf(id1, itf), "net.ipv4.itf.ip_forward", "-", n) >>

LinkCmds(id1, itf, link, n, v4) ==
    << Cmd(id1, "fwd", Itf(id1, itf), "net.ipv6.conf.itf.forwarding", "-", n),
       Cmd(id1, "fwd", Itf(id1, itf), "net.ipv6.conf.itf.mc_forwarding", "-", n),
       Cmd(id1, "fwd", Itf(id1, itf), "net.ipv4.itf.ip_forward", "-", n),
       Cmd(id1, "addr", Itf(id1, itf), link, Fam(v4), n) >>

(* lines 107-111, run for the link record at hand when args.traces: the  *)
(* directory is removed if it is one, os.makedirs creates it (and raises *)
(* FileExistsError on a plain file of that name), tcpdump is started     *)
TraceCmds(id1, itf, n) ==
    IF ~traces THEN <<>>
    ELSE IF pcapDir = "file" THEN <<>>
    ELSE (IF pcapDir = "dir" THEN <<Sys("rmtree")>> ELSE <<>>)
         \o <<Sys("makedirs"), Cmd(id1, "capture", Itf(id1, itf), "tcpdump", "-", n)>>

RunLinkLine ==
    /\ AtLine("run_links")
    /\ LET link_info == txt[i]
           f == Split(link_info)
           calls(v4) == LinkCmds(f[1], f[3], f[4], i, v4) \o TraceCmds(f[1], f[3], i)
       IN  IF IsBlank(link_info)
           THEN /\ i' = i + 1
                /\ NoCall
                /\ UNCHANGED <<err, pcapDir>>
           ELSE IF Len(f) # 5
           THEN /\ Raise("ValueError")
                /\ NoCall
                /\ UNCHANGED <<i, pcapDir>>
           ELSE IF ~NetHas(f[1])
           THEN /\ Raise("KeyError")
                /\ NoCall
                /\ UNCHANGED <<i, pcapDir>>
           ELSE IF traces /\ pcapDir = "file"
           THEN /\ Issue(calls(ipv4), calls(~ipv4))
                /\ Raise("FileExistsError")
                /\ UNCHANGED <<i, pcapDir>>
           ELSE /\ Issue(calls(ipv4), calls(~ipv4))
                /\ pcapDir' = IF traces THEN "dir" ELSE pcapDir
                /\ i' = i + 1
                /\ UNCHANGED err
    /\ UNCHANGED <<inputs, pc, txt, all_nodes, all_links>>

RunOpenPaths_BeforeLinks ==
    /\ AtEnd("run_loopbacks")
    /\ Open("run_open_paths", pathFile, "run_paths")
    /\ NoCall
    /\ UNCHANGED <<inputs, pcapDir, all_nodes, all_links>>

RunOpenPaths ==
    /\ AtEnd("run_links")
    /\ Open("run_open_paths", pathFile, "run_paths")
    /\ NoCall
    /\ UNCHANGED <<inputs, pcapDir, all_nodes, all_links>>

RouteCmd_Swapped(id1, link, loopback, n, v4) ==
    Cmd(id1, "route", loopback, link, Fam(v4), n)

RouteCmd_Always6(id1, link, loopback, n, v4) ==
    Cmd(id1, "route", link, loopback, "v6", n)

RouteCmd(id1, link, loopback, n, v4) ==
    Cmd(id1, "route", link, loopback, Fam(v4), n)

RunPathLine ==
    /\ AtLine("run_paths")
    /\ LET path_info == txt[i]
           f == Split(path_info)
           calls(v4) == <<RouteCmd(f[1], f[3], f[4], i, v4)>>
       IN  IF IsBlank(path_info)
           THEN /\ i' = i + 1
                /\ NoCall
                /\ UNCHANGED err
           ELSE IF Len(f) # 4
           THEN /\ Raise("ValueError")
                /\ NoCall
                /\ UNCHANGED i
           ELSE IF ~NetHas(f[1])
           THEN /\ Raise("KeyError")
                /\ NoCall
                /\ UNCHANGED i
           ELSE /\ Issue(calls(ipv4), calls(~ipv4))
                /\ i' = i + 1
                /\ UNCHANGED err
    /\ UNCHANGED <<inputs, pcapDir, pc, txt, all_nodes, all_links>>

RunCLI_InLoop ==
    /\ err = "none"
    /\ pc = "run_paths"
    /\ LET calls(v4) == <<Sys("cli")>> IN Issue(calls(ipv4), calls(~ipv4))
    /\ pc' = "cli"
    /\ UNCHANGED <<inputs, pcapDir, txt, i, all_nodes, all_links, err>>

RunCLI ==
    /\ AtEnd("run_paths")
    /\ LET calls(v4) == <<Sys("cli")>> IN Issue(calls(ipv4), calls(~ipv4))
    /\ pc' = "cli"
    /\ UNCHANGED <<inputs, pcapDir, txt, i, all_nodes, all_links, err>>

NetStop ==
    /\ err = "none"
    /\ pc = "cli"
    /\ LET calls(v4) == <<Sys("stop")>> IN Issue(calls(ipv4), calls(~ipv4))
    /\ pc' = "done"
    /\ UNCHANGED <<inputs, pcapDir, txt, i, all_nodes, all_links, err>>

Next ==
    \/ BuildOpenLoopbacks
    \/ BuildNodeLine
    \/ BuildOpenLinks
    \/ BuildLinkLine
    \/ NetStart
    \/ RunOpenLoopbacks
    \/ RunLoopbackLine
    \/ RunOpenLinks
    \/ RunLinkLine
    \/ RunOpenPaths
    \/ RunPathLine
    \/ RunCLI
    \/ NetStop

Spec == Init /\ [][Next]_vars

----------------------------------------------------------------------------
(* Reading the log *)

PcOrder ==
    << "build_open_loopbacks", "build_nodes", "build_open_links", "build_links",
       "run_open_loopbacks", "run_loopbacks", "run_open_links", "run_links",
       "run_open_paths", "run_paths", "cli", "done" >>

Rank(p) == CHOOSE k \in 1..Len(PcOrder) : PcOrder[k] = p
Past(p) == Rank(pc) > Rank(p)

Calls(op) == { k \in 1..Len(log) : log[k].op = op }
Cmds(kind) == { k \in 1..Len(log) : log[k].op = "cmd" /\ log[k].kind = kind }
Issued(op) == Calls(op) # {}

Records(file) == { k \in 1..Len(file) : file[k] # <<>> }
RecordsBefore(file, n) == { k \in Records(file) : k < n }
Field(file, k, j) == Split(file[k])[j]

(* the unordered pair of endpoints of link record k *)
Pair(file, k) == { Field(file, k, 1), Field(file, k, 2) }
PairsBefore(file, n) == { Pair(file, k) : k \in RecordsBefore(file, n) }
LinkedPairs == { {log[k].host, log[k].arg} : k \in Calls("addLink") }

----------------------------------------------------------------------------
(* C1: build issues one addLink per distinct unordered pair of endpoint   *)
(* ids: after every link line processed so far, and once the link file is *)
(* done, the addLink calls are as many as the distinct unordered pairs of *)
(* the lines read, they join exactly those pairs, and all_links never     *)
(* holds both (a,b) and (b,a).                                            *)
C1_OneLinkPerPair ==
    /\ \A p \in all_links : p[1] # p[2] => <<p[2], p[1]>> \notin all_links
    /\ pc = "build_links" =>
          /\ Cardinality(Calls("addLink")) = Cardinality(PairsBefore(txt, i))
          /\ LinkedPairs = PairsBefore(txt, i)
    /\ Past("build_links") =>
          /\ Cardinality(Calls("addLink")) =
                Cardinality(PairsBefore(linkFile, Len(linkFile) + 1))
          /\ LinkedPairs = PairsBefore(linkFile, Len(linkFile) + 1)

(* a link file with a pair in both orientations has been built *)
C1_Witness ==
    /\ Past("build_links")
    /\ \E j, k \in Records(linkFile) :
          /\ j < k
          /\ Field(linkFile, j, 1) = Field(linkFile, k, 2)
          /\ Field(linkFile, j, 2) = Field(linkFile, k, 1)
          /\ Field(linkFile, j, 1) # Field(linkFile, j, 2)
    /\ Cardinality(Calls("addLink")) = 1

----------------------------------------------------------------------------
(* C9, as stated: once the node loop of build has run out of lines, the   *)
(* hosts registered are as many as the non-blank lines of the node file   *)
(* and their ids are pairwise distinct.                                   *)
NodesDone == Past("build_nodes") \/ (pc = "build_nodes" /\ i > Len(txt))

NodeIds == { Field(nodeFile, k, 1) : k \in Records(nodeFile) }
NodeIdsDistinct ==
    \A j, k \in Records(nodeFile) :
        j # k => Field(nodeFile, j, 1) # Field(nodeFile, k, 1)

C9_Original ==
    NodesDone =>
        /\ Cardinality(Calls("addHost")) = Cardinality(Records(nodeFile))
        /\ \A j, k \in Calls("addHost") : j # k => log[j].host # log[k].host

(* C9, amended: build issues one addHost call per non-blank line, with    *)
(* the id and loopback of that line, in file order, and none for a blank  *)
(* line; the registered ids are distinct, and all_nodes has one entry per *)
(* line, exactly when the ids of the file are pairwise distinct.          *)
C9_OneHostPerLine ==
    NodesDone =>
        /\ Cardinality(Calls("addHost")) = Cardinality(Records(nodeFile))
        /\ \A k \in Records(nodeFile) :
              \E j \in Calls("addHost") :
                  /\ log[j].line = k
                  /\ log[j].host = Field(nodeFile, k, 1)
                  /\ log[j].arg = Field(nodeFile, k, 2)
        /\ \A j, k \in Calls("addHost") : j < k => log[j].line < log[k].line
        /\ all_nodes = NodeIds
        /\ NodeIdsDistinct <=>
              /\ \A j, k \in Calls("addHost") : j # k => log[j].host # log[k].host
              /\ Cardinality(all_nodes) = Cardinality(Records(nodeFile))

(* a node file with a blank line and two hosts has been registered *)
C9_Witness ==
    /\ NodesDone
    /\ \E k \in 1..Len(nodeFile) : nodeFile[k] = <<>>
    /\ Cardinality(Records(nodeFile)) >= 2
    /\ NodeIdsDistinct
    /\ Cardinality(Calls("addHost")) = Cardinality(Records(nodeFile))

----------------------------------------------------------------------------
(* C5, as stated: when a link line of the wrong field count ends build,   *)
(* no host and no link has been registered.                               *)
MalformedLink == err = "ValueError" /\ pc = "build_links"

----------------------------------------------------------------------------
(* C6, as stated: when an input file cannot be opened, nothing has been   *)
(* asked of the topology, the network or a host.                          *)
FileMissing == err = "FileNotFoundError"

----------------------------------------------------------------------------
----------------------------------------------------------------------------
(* C3: the capture directory is removed or created at most once in a run, *)
(* and never after a capture has been started.                            *)
C3_ResetOnce ==
    /\ Cardinality(Calls("makedirs")) <= 1
    /\ Cardinality(Calls("rmtree")) <= 1
    /\ \A j \in Cmds("capture"), k \in Calls("rmtree") \cup Calls("makedirs") :
          k < j

----------------------------------------------------------------------------
(* C4, as stated: when a path record names a host that is not in the node *)
(* file, the run ends before any route command has been issued.           *)
UnknownInPath == err = "KeyError" /\ pc = "run_paths"

C4_Original == UnknownInPath => Cmds("route") = {}

(* C4, amended: the run ends with KeyError at the first path record whose *)
(* host is not in the node file: the records before it have had their     *)
(* route command (on their host, to their destination via their gateway), *)
(* that record and the later ones have none, and the interactive session  *)
(* is not entered.                                                        *)
C4_AbortsAtTheRecord ==
    UnknownInPath =>
        /\ Field(txt, i, 1) \notin { log[k].host : k \in Calls("addHost") }
        /\ Cardinality(Cmds("route")) = Cardinality(RecordsBefore(txt, i))
        /\ \A r \in RecordsBefore(txt, i) :
              \E k \in Cmds("route") :
                  /\ log[k].line = r
                  /\ log[k].host = Field(txt, r, 1)
                  /\ log[k].dev = Field(txt, r, 3)
                  /\ log[k].arg = Field(txt, r, 4)
        /\ ~Issued("cli")

(* the record of the unknown host comes after a record of a known one *)
C4_Witness ==
    /\ UnknownInPath
    /\ Cmds("route") # {}

----------------------------------------------------------------------------
(* C7: no forwarding-enable or address-assignment command is issued after *)
(* a route command, and when the first route command is issued every node *)
(* line and every link record has had all of its commands.                *)
C7_RoutesLast ==
    /\ \A j \in Cmds("route"), k \in Cmds("fwd") \cup Cmds("addr") : k < j
    /\ Cmds("route") # {} =>
          /\ Cardinality(Cmds("addr")) =
                Cardinality(Records(nodeFile)) + Cardinality(Records(linkFile))
          /\ Cardinality(Cmds("fwd")) =
                5 * Cardinality(Records(nodeFile)) + 3 * Cardinality(Records(linkFile))

(* routes have been issued after loopbacks and interfaces were configured *)
C7_Witness ==
    /\ Cmds("route") # {}
    /\ \E k \in Cmds("addr") : log[k].dev # "lo"
    /\ \E k \in Cmds("addr") : log[k].dev = "lo"

----------------------------------------------------------------------------
(* C8: every address-assignment and route command of a run is of the      *)
(* family the flag selects (IPv4 when ipv4, IPv6 otherwise), no other     *)
(* command has a family, and the run with the flag negated issues the     *)
(* same calls in the same order, the family apart.                        *)
Flip(fam) == IF fam = "v4" THEN "v6" ELSE IF fam = "v6" THEN "v4" ELSE fam

C8_OneFamily ==
    /\ \A k \in 1..Len(log) :
          IF k \in Cmds("addr") \cup Cmds("route")
          THEN log[k].fam = (IF ipv4 THEN "v4" ELSE "v6")
          ELSE log[k].fam = "-"
    /\ Len(twin) = Len(log)
    /\ \A k \in 1..Len(log) : twin[k] = [log[k] EXCEPT !.fam = Flip(@)]

(* an IPv4 run has assigned a loopback, an interface and a route *)
C8_Witness ==
    /\ ipv4
    /\ Cmds("route") # {}
    /\ \E k \in Cmds("addr") : log[k].dev # "lo"
    /\ \E k \in Cmds("addr") : log[k].dev = "lo"

----------------------------------------------------------------------------
(* C10: the interactive session is entered only after the network has     *)
(* been started and every node line, link record and path record has had  *)
(* its commands (and its capture when tracing); nothing is issued between *)
(* the session and the teardown, the run is over only after the teardown, *)
(* and a run ended by an exception never enters the session.              *)
C10_SessionLast ==
    /\ Issued("cli") =>
          /\ err = "none"
          /\ \E s \in Calls("start") : \A c \in Calls("cli") : s < c
          /\ \A c \in Calls("cli"), k \in Calls("cmd") : k < c
          /\ Cardinality(Calls("cli")) = 1
          /\ Cardinality(Cmds("addr")) =
                Cardinality(Records(nodeFile)) + Cardinality(Records(linkFile))
          /\ Cardinality(Cmds("fwd")) =
                5 * Cardinality(Records(nodeFile)) + 3 * Cardinality(Records(linkFile))
          /\ Cardinality(Cmds("capture")) =
                (IF traces THEN Cardinality(Records(linkFile)) ELSE 0)
          /\ Cardinality(Cmds("route")) = Cardinality(Records(pathFile))
    /\ Issued("stop") =>
          /\ Len(log) >= 2
          /\ log[Len(log)].op = "stop"
          /\ log[Len(log) - 1].op = "cli"
    /\ pc = "done" <=> Issued("stop")
    /\ pc = "cli" => log[Len(log)].op = "cli"
    /\ err # "none" => ~Issued("cli") /\ ~Issued("stop")

(* a traced run with routes has been through the session and torn down *)
C10_Witness ==
    /\ pc = "done"
    /\ traces
    /\ Cmds("route") # {}
    /\ Cmds("capture") # {}

====
